---- MODULE Spec2Model ----
(***************************************************************************)
(* A model of the dfs peer-to-peer node (package network): the node's      *)
(* lifecycle (Start, bootstrapDHT, Close), the transport's connections and *)
(* the connect/disconnect notifications that maintain the peer registry.   *)
(* The repository holds four revisions of the node; the variable rev says  *)
(* which one is running. Further parts: the discoverPeers goroutine of the *)
(* blocking revision, a second node (node A) at the other end of this      *)
(* node's connections, and func main of the daemon that owns the node.     *)
(***************************************************************************)
EXTENDS Integers, Sequences, FiniteSets, TLC

(***************************************************************************)
(* Bounds of the model.                                                    *)
(***************************************************************************)
NumConns == 3
MaxList == 2
MaxCloses == 2
MaxTicks == 2
MaxHandlers == 2

\* Connection handles of the transport, remote peers, GetPeers callers.
ConnIds == 1..NumConns
Peers == {1, 2}

\* conn.RemotePeer(): the connections go to the two peers in turn, so that
\* from the third on a peer has several connections.
RemotePeer(c) == IF c % 2 = 1 THEN 1 ELSE 2

\* conn.RemoteMultiaddr(): every connection has its own remote address.
RemoteMultiaddr(c) == c

\* The revisions of pkg/network: the first one, the one whose Start blocks
\* on the context, the one with operator-supplied bootstrap peers, and the
\* one with the EnableDHT option.
RevFirst == "first"
RevBlocking == "blocking"
RevCustom == "custom"
RevEnableDHT == "enabledht"
Revisions == {RevFirst, RevBlocking, RevCustom, RevEnableDHT}

\* The revisions that keep a peer registry (peers, peersMu).
RegistryRevs == {RevCustom, RevEnableDHT}

(***************************************************************************)
(* Bootstrap peer strings. ma: multiaddr.NewMultiaddr accepts the string;  *)
(* id: the peer of its /p2p component, 0 when it has none.                 *)
(***************************************************************************)
Entries == {[ma |-> FALSE, id |-> 0]} \cup {[ma |-> TRUE, id |-> i] : i \in {0} \cup Peers}

RECURSIVE SeqsUpTo(_, _)
SeqsUpTo(S, n) ==
    IF n = 0 THEN {<<>>}
    ELSE LET shorter == SeqsUpTo(S, n - 1)
         IN shorter \cup {Append(s, e) : s \in {t \in shorter : Len(t) = n - 1}, e \in S}

\* multiaddr.NewMultiaddr(peerStr): err # nil for a malformed string.
NewMultiaddrFails(e) == ~e.ma

\* peer.AddrInfoFromP2pAddr(addr): err # nil (and a nil *AddrInfo) for an
\* address without a /p2p component, and for a nil address.
AddrInfoFromP2pAddrFails(e) == ~e.ma \/ e.id = 0

\* dht.DefaultBootstrapPeers: already-parsed, well-formed /p2p addresses.
DefaultBootstrapPeers == <<[ma |-> TRUE, id |-> 1], [ma |-> TRUE, id |-> 2]>>

VARIABLES
    rev,             \* the revision of the node
    enableDHT,       \* P2PNetworkingOpts.EnableDHT
    bootstrapPeers,  \* P2PNetworkingOpts.BootstrapPeers
    reachable,       \* the peers a dial reaches
    host,            \* n.host: "nil", "open", "closed"
    dht,             \* n.dht: "nil", "open", "closed"
    peers,           \* n.peers: map[peer.ID]peer.AddrInfo
    peersMu,         \* n.peersMu: [w |-> holders of Lock, r |-> holders of RLock]
    notifiee,        \* what is registered with h.Network().Notify
    live,            \* the transport's live connections
    hpc,             \* per connection: the position of its notification
    rpc,             \* position of the GetPeers caller
    snapshot,        \* the last sequence GetPeers returned
    snapAt,          \* number of registry events applied when it was taken
    events,          \* registry mutations in the order of their critical sections
    raced,           \* a map write ran while another goroutine held the lock
    spc,             \* position of Start
    blist,           \* bootstrapDHT's local list of addresses to dial
    idx,             \* bootstrapDHT's loop index
    connectedCount,  \* bootstrapDHT's connectedCount
    dials,           \* host.Connect calls made by the bootstrap, with results
    dhtBootstraps,   \* calls of n.dht.Bootstrap: how many dials had been made at each
    bootErr,         \* what bootstrapDHT returned
    startRet,        \* what Start returned
    panic,           \* "none", or the method in which a nil dereference crashed the process
    cpc,             \* position of Close
    closeTrace,      \* resources the running (or last) Close has closed, in order
    closeRes,        \* results of the closes made by the running (or last) Close
    closeRets,       \* return values of the Close calls, in order
    ctx,             \* the context given to Start: "live", "cancelled"
    tpc,             \* position of the discoverPeers goroutine: "none", "select", "done"
    tickReady,       \* a tick is waiting in ticker.C
    ticks,           \* ticks the ticker has delivered to ticker.C
    reports,         \* the connected-peer counts discoverPeers has logged
    peersA,          \* node A (the remote peer NodeA): its n.peers
    peersMuA,        \* node A: its n.peersMu
    hpcA,            \* node A: per connection with this node, the position of its notification
    daemon,          \* the main function that owns the node: "none", "signals", "early"
    mpc,             \* position of main
    exitHow          \* how the process ended: "none", "returned", "fatal", "killed"

cfgVars == <<rev, enableDHT, bootstrapPeers, reachable>>
regVars == <<peers, peersMu, events, raced>>
connVars == <<live, hpc>>
readVars == <<rpc, snapshot, snapAt>>
startVars == <<spc, blist, idx, connectedCount, dials, dhtBootstraps, bootErr, startRet>>
closeVars == <<cpc, closeTrace, closeRes, closeRets>>
taskVars == <<ctx, tpc, tickReady, ticks, reports>>
pairVars == <<peersA, peersMuA, hpcA>>
daemonVars == <<daemon, mpc, exitHow>>
vars == <<cfgVars, host, dht, notifiee, regVars, connVars, readVars, startVars, panic, closeVars, taskVars, pairVars, daemonVars>>

(***************************************************************************)
(* The registry as a map, and its replay from the event history.          *)
(***************************************************************************)
EmptyMap == [q \in {} |-> 0]

AddrInfo(c) == [ID |-> RemotePeer(c), Addrs |-> <<RemoteMultiaddr(c)>>]

MapPut(m, k, v) == [q \in (DOMAIN m) \cup {k} |-> IF q = k THEN v ELSE m[q]]

MapDelete(m, k) == [q \in (DOMAIN m) \ {k} |-> m[q]]

\* NewP2PNetworking: a node with configuration and no resources.
Init ==
    /\ rev \in Revisions
    /\ enableDHT \in (IF rev = RevEnableDHT THEN BOOLEAN ELSE {TRUE})
    /\ bootstrapPeers \in (IF rev \in RegistryRevs THEN SeqsUpTo(Entries, MaxList) ELSE {<<>>})
    /\ reachable \in SUBSET Peers
    /\ host = "nil"
    /\ dht = "nil"
    /\ peers = EmptyMap
    /\ peersMu = [w |-> 0, r |-> 0]
    /\ notifiee = "none"
    /\ live = [c \in ConnIds |-> FALSE]
    /\ hpc = [c \in ConnIds |-> "idle"]
    /\ rpc = "idle"
    /\ snapshot = <<>>
    /\ snapAt = 0
    /\ events = <<>>
    /\ raced = FALSE
    /\ spc = "created"
    /\ blist = <<>>
    /\ idx = 0
    /\ connectedCount = 0
    /\ dials = <<>>
    /\ dhtBootstraps = <<>>
    /\ bootErr = "none"
    /\ startRet = "none"
    /\ panic = "none"
    /\ cpc = "idle"
    /\ closeTrace = <<>>
    /\ closeRes = [dht |-> "none", host |-> "none"]
    /\ closeRets = <<>>
    /\ ctx = "live"
    /\ tpc = "none"
    /\ tickReady = FALSE
    /\ ticks = 0
    /\ reports = <<>>
    /\ peersA = EmptyMap
    /\ peersMuA = [w |-> 0, r |-> 0]
    /\ hpcA = [c \in ConnIds |-> "idle"]
    /\ daemon = "none"
    /\ mpc = "none"
    /\ exitHow = "none"

Alive == panic = "none"

(***************************************************************************)
(* peersMu, a sync.RWMutex.                                                *)
(***************************************************************************)
\* A mutex whose Lock excludes nobody.
CanLock_NoExclusion(mu) == TRUE

\* Lock() returns only when no goroutine holds the mutex in either mode.
CanLock(mu) == mu.w = 0 /\ mu.r = 0

\* RLock() returns only when no goroutine holds the write lock.
CanRLock(mu) == mu.w = 0

(***************************************************************************)
(* The transport: connections open and close on their own; each transition *)
(* calls the registered notifiee once, Connected before Disconnected for   *)
(* the same connection. hpc[c] is "idle" (never opened), "C0" (Connected   *)
(* called), "C1" (Connected holds the lock), "established" (Connected has  *)
(* returned, or was never called), "D0", "D1" (the same for Disconnected), *)
(* "gone".                                                                 *)
(***************************************************************************)
\* A transport that calls no notifiee when a connection opens.
OnOpen_NoNotifiee == "established"

\* Where a connection's notification starts when it opens: only the
\* registry notifiee has state to change.
OnOpen == IF notifiee = "registry" THEN "C0" ELSE "established"

\* Where it continues when the connection is torn down.
OnTeardown == IF notifiee = "registry" THEN "D0" ELSE "gone"

\* A connection to a remote peer completes (inbound, or any dial that is
\* not the bootstrap's).
ConnOpen(c) ==
    /\ Alive
    /\ host = "open"
    /\ hpc[c] = "idle"
    /\ live' = [live EXCEPT ![c] = TRUE]
    /\ hpc' = [hpc EXCEPT ![c] = OnOpen]
    /\ UNCHANGED <<cfgVars, pairVars, taskVars, daemonVars, host, dht, notifiee, regVars, readVars, startVars, panic, closeVars>>

\* The remote side, the network or the connection manager closes a connection.
ConnClose(c) ==
    /\ Alive
    /\ live[c]
    /\ live' = [live EXCEPT ![c] = FALSE]
    /\ hpc' = [hpc EXCEPT ![c] = IF hpc[c] = "established" THEN OnTeardown ELSE hpc[c]]
    /\ UNCHANGED <<cfgVars, pairVars, taskVars, daemonVars, host, dht, notifiee, regVars, readVars, startVars, panic, closeVars>>

(***************************************************************************)
(* networkNotifiee.Connected and networkNotifiee.Disconnected.             *)
(***************************************************************************)
\* A store that keeps the record the peer already has.
ConnectedStore_KeepFirst(m, c) ==
    IF RemotePeer(c) \in DOMAIN m THEN m ELSE MapPut(m, RemotePeer(c), AddrInfo(c))

\* nn.net.peers[peerID] = peer.AddrInfo{ID: peerID, Addrs: {conn.RemoteMultiaddr()}}
ConnectedStore(m, c) == MapPut(m, RemotePeer(c), AddrInfo(c))

\* A Disconnected that deletes the record only when the transport has no
\* other live connection to the peer.
DisconnectedDelete_IfLast(m, c) ==
    IF \E d \in ConnIds \ {c} : live[d] /\ RemotePeer(d) = RemotePeer(c)
    THEN m
    ELSE MapDelete(m, RemotePeer(c))

\* A Disconnected that leaves the record in the map.
DisconnectedDelete_Keep(m, c) == m

\* delete(nn.net.peers, peerID)
DisconnectedDelete(m, c) == MapDelete(m, RemotePeer(c))

\* A map access outside the mutex's protection is a data race.
Races(mu) == mu.w > 1 \/ mu.r > 0

Connected_Lock(c) ==
    /\ Alive
    /\ hpc[c] = "C0"
    /\ CanLock(peersMu)
    /\ peersMu' = [peersMu EXCEPT !.w = @ + 1]
    /\ hpc' = [hpc EXCEPT ![c] = "C1"]
    /\ UNCHANGED <<cfgVars, pairVars, taskVars, daemonVars, host, dht, notifiee, peers, events, raced, live, readVars, startVars, panic, closeVars>>

\* A Connected that returns without Unlock.
Connected_Store_NoUnlock(c) ==
    /\ Alive
    /\ hpc[c] = "C1"
    /\ peers' = ConnectedStore(peers, c)
    /\ events' = Append(events, [op |-> "connect", conn |-> c])
    /\ raced' = (raced \/ Races(peersMu))
    /\ hpc' = [hpc EXCEPT ![c] = IF live[c] THEN "established" ELSE "D0"]
    /\ UNCHANGED <<cfgVars, pairVars, taskVars, daemonVars, host, dht, notifiee, peersMu, live, readVars, startVars, panic, closeVars>>

\* The store, Unlock, the log line and the return.
Connected_Store(c) ==
    /\ Alive
    /\ hpc[c] = "C1"
    /\ peers' = ConnectedStore(peers, c)
    /\ events' = Append(events, [op |-> "connect", conn |-> c])
    /\ raced' = (raced \/ Races(peersMu))
    /\ peersMu' = [peersMu EXCEPT !.w = @ - 1]
    /\ hpc' = [hpc EXCEPT ![c] = IF live[c] THEN "established" ELSE "D0"]
    /\ UNCHANGED <<cfgVars, pairVars, taskVars, daemonVars, host, dht, notifiee, live, readVars, startVars, panic, closeVars>>

Disconnected_Lock(c) ==
    /\ Alive
    /\ hpc[c] = "D0"
    /\ CanLock(peersMu)
    /\ peersMu' = [peersMu EXCEPT !.w = @ + 1]
    /\ hpc' = [hpc EXCEPT ![c] = "D1"]
    /\ UNCHANGED <<cfgVars, pairVars, taskVars, daemonVars, host, dht, notifiee, peers, events, raced, live, readVars, startVars, panic, closeVars>>

\* The delete, Unlock, the log line and the return.
Disconnected_Delete(c) ==
    /\ Alive
    /\ hpc[c] = "D1"
    /\ peers' = DisconnectedDelete(peers, c)
    /\ events' = Append(events, [op |-> "disconnect", conn |-> c])
    /\ raced' = (raced \/ Races(peersMu))
    /\ peersMu' = [peersMu EXCEPT !.w = @ - 1]
    /\ hpc' = [hpc EXCEPT ![c] = "gone"]
    /\ UNCHANGED <<cfgVars, pairVars, taskVars, daemonVars, host, dht, notifiee, live, readVars, startVars, panic, closeVars>>

(***************************************************************************)
(* Node A: the remote peer NodeA when it is another node of this program   *)
(* (custom revision) that is running, its notifiee registered. A           *)
(* connection of this node (NodeB, as node A sees it) with NodeA is one    *)
(* connection with two ends: node A's transport calls node A's Connected   *)
(* once it is open.                                                        *)
(***************************************************************************)
NodeA == 1
NodeB == 0

\* conn.RemoteMultiaddr() at node A's end of the connection.
LocalMultiaddr(c) == 0 - c

\* The record node A's Connected stores for the connection.
AddrInfoA(c) == [ID |-> NodeB, Addrs |-> <<LocalMultiaddr(c)>>]

NodeA_Connected_Lock(c) ==
    /\ RemotePeer(c) = NodeA
    /\ hpc[c] # "idle"
    /\ hpcA[c] = "idle"
    /\ CanLock(peersMuA)
    /\ peersMuA' = [peersMuA EXCEPT !.w = @ + 1]
    /\ hpcA' = [hpcA EXCEPT ![c] = "C1"]
    /\ UNCHANGED <<cfgVars, taskVars, daemonVars, peersA, host, dht, notifiee, regVars, connVars, readVars, startVars, panic, closeVars>>

NodeA_Connected_Store(c) ==
    /\ hpcA[c] = "C1"
    /\ peersA' = MapPut(peersA, NodeB, AddrInfoA(c))
    /\ peersMuA' = [peersMuA EXCEPT !.w = @ - 1]
    /\ hpcA' = [hpcA EXCEPT ![c] = "established"]
    /\ UNCHANGED <<cfgVars, taskVars, daemonVars, host, dht, notifiee, regVars, connVars, readVars, startVars, panic, closeVars>>

(***************************************************************************)
(* P2PNetworking.GetPeers.                                                 *)
(***************************************************************************)
RECURSIVE Orderings(_)
\* The sequences a range loop over the map can build: every key once, in
\* any order.
Orderings(m) ==
    IF DOMAIN m = {} THEN {<<>>}
    ELSE UNION {{Append(s, m[k]) : s \in Orderings(MapDelete(m, k))} : k \in DOMAIN m}

GetPeers_RLock ==
    /\ Alive
    /\ rev = RevCustom
    /\ rpc = "idle"
    /\ CanRLock(peersMu)
    /\ peersMu' = [peersMu EXCEPT !.r = @ + 1]
    /\ rpc' = "R1"
    /\ UNCHANGED <<cfgVars, pairVars, taskVars, daemonVars, host, dht, notifiee, peers, events, raced, connVars, snapshot, snapAt, startVars, panic, closeVars>>

\* The copy loop, the deferred RUnlock and the return.
GetPeers_Copy ==
    /\ Alive
    /\ rpc = "R1"
    /\ snapshot' \in Orderings(peers)
    /\ snapAt' = Len(events)
    /\ peersMu' = [peersMu EXCEPT !.r = @ - 1]
    /\ rpc' = "idle"
    /\ UNCHANGED <<cfgVars, pairVars, taskVars, daemonVars, host, dht, notifiee, peers, events, raced, connVars, startVars, panic, closeVars>>

(***************************************************************************)
(* P2PNetworking.Start, up to the construction of the host.                *)
(***************************************************************************)
\* The steps of Start (of prepare, in the two early revisions) that can fail.
PrepareFailures(r) ==
    CASE r = RevCustom -> {"keygen", "connmgr", "atoi", "listenaddr", "host"}
      [] r = RevEnableDHT -> {"keygen", "connmgr", "host"}
      [] OTHER -> {"keygen", "connmgr", "atoi", "host"}

\* Whether libp2p.New is given the libp2p.Routing option that builds the DHT.
HasRouting == rev # RevEnableDHT \/ enableDHT

\* n.dht once libp2p.New has run the routing constructor (built) and has
\* returned (ok): the two later revisions assign it inside the constructor,
\* the blocking revision after libp2p.New succeeded, the first one never.
DhtField(built, ok) ==
    CASE rev \in RegistryRevs -> IF HasRouting /\ built THEN "open" ELSE "nil"
      [] rev = RevBlocking -> IF ok THEN "open" ELSE "nil"
      [] OTHER -> "nil"

\* What Start does with a failure of the steps before the host exists: the
\* two later revisions return the error; the two early ones log prepare's
\* error and go on to dereference the nil host.
PrepareFailed(out) ==
    IF rev \in RegistryRevs
    THEN /\ spc' = "returned"
         /\ startRet' = out
         /\ panic' = panic
    ELSE /\ spc' = "crashed"
         /\ startRet' = startRet
         /\ panic' = "Start"

Start_Prepare ==
    /\ Alive
    /\ spc = "created"
    /\ cpc = "idle"
    /\ closeRets = <<>>
    /\ \E out \in PrepareFailures(rev) \cup {"ok"}, built \in BOOLEAN :
          /\ (out = "ok") => built
          /\ (out # "host") => (built = (out = "ok"))
          /\ dht' = DhtField(built, out = "ok")
          /\ IF out = "ok"
             THEN /\ host' = "open"
                  /\ spc' = IF rev \in RegistryRevs THEN "notify" ELSE "bootstrap"
                  /\ UNCHANGED <<startRet, panic>>
             ELSE /\ host' = host
                  /\ PrepareFailed(out)
    /\ UNCHANGED <<cfgVars, pairVars, taskVars, daemonVars, notifiee, regVars, connVars, readVars, blist, idx, connectedCount, dials, dhtBootstraps, bootErr, closeVars>>

\* A Start that runs the bootstrap for any non-empty list, discovery enabled or not.
RunsBootstrap_AnyList == rev # RevEnableDHT \/ Len(bootstrapPeers) > 0

\* Whether Start goes on to bootstrapDHT once the notifiee is registered.
RunsBootstrap == rev # RevEnableDHT \/ (enableDHT /\ Len(bootstrapPeers) > 0)

\* h.Network().Notify(&networkNotifiee{...}) and the log line after it.
Start_Notify ==
    /\ Alive
    /\ spc = "notify"
    /\ notifiee' = "registry"
    /\ IF RunsBootstrap
       THEN /\ spc' = "bootstrap"
            /\ UNCHANGED startRet
       ELSE /\ spc' = "returned"
            /\ startRet' = "nil"
    /\ UNCHANGED <<cfgVars, pairVars, taskVars, daemonVars, host, dht, regVars, connVars, readVars, blist, idx, connectedCount, dials, dhtBootstraps, bootErr, panic, closeVars>>

(***************************************************************************)
(* P2PNetworking.bootstrapDHT (in the first revision, the loop of Start).  *)
(***************************************************************************)
\* A bootstrap that falls back to the default set when none of the
\* operator's strings parses.
BootstrapList_FallsBack ==
    CASE rev = RevCustom ->
            LET parsed == SelectSeq(bootstrapPeers, LAMBDA e : ~NewMultiaddrFails(e))
            IN IF Len(parsed) > 0 THEN parsed ELSE DefaultBootstrapPeers
      [] rev = RevEnableDHT -> bootstrapPeers
      [] OTHER -> DefaultBootstrapPeers

\* The addresses the loop ranges over: the custom revision parses the
\* operator's strings and drops the malformed ones, or takes the default set
\* when there are none; the EnableDHT revision ranges over the raw strings;
\* the two early revisions always take the default set.
BootstrapList ==
    CASE rev = RevCustom ->
            IF Len(bootstrapPeers) > 0
            THEN SelectSeq(bootstrapPeers, LAMBDA e : ~NewMultiaddrFails(e))
            ELSE DefaultBootstrapPeers
      [] rev = RevEnableDHT -> bootstrapPeers
      [] OTHER -> DefaultBootstrapPeers

bootstrapDHT_Begin ==
    /\ Alive
    /\ spc = "bootstrap"
    /\ blist' = BootstrapList
    /\ idx' = 1
    /\ connectedCount' = 0
    /\ spc' = "dial"
    /\ UNCHANGED <<cfgVars, pairVars, taskVars, daemonVars, host, dht, notifiee, regVars, connVars, readVars, dials, dhtBootstraps, bootErr, startRet, panic, closeVars>>

\* Whether the revision checks the error of peer.AddrInfoFromP2pAddr (and
\* skips the entry) or discards it and dereferences the nil result.
ChecksParseError == rev \in {RevCustom, RevBlocking}

\* A bootstrap that counts no dial.
CountsDials_Never == FALSE

\* Whether the revision counts the successful dials.
CountsDials == rev \in {RevCustom, RevBlocking}

\* The connection host.Connect returns on: a live one to the peer (0: no
\* new connection), or a new one on the first handle that is not in use.
DialTargets(p) ==
    IF \E c \in ConnIds : RemotePeer(c) = p /\ live[c]
    THEN {0}
    ELSE LET free == {c \in ConnIds : RemotePeer(c) = p /\ hpc[c] \in {"idle", "gone"}}
         IN {c \in free : \A d \in free : c <= d}

\* One iteration of the loop over the bootstrap addresses.
bootstrapDHT_Dial ==
    /\ Alive
    /\ spc = "dial"
    /\ idx <= Len(blist)
    /\ LET e == blist[idx] IN
       IF AddrInfoFromP2pAddrFails(e)
       THEN /\ IF ChecksParseError
               THEN UNCHANGED <<spc, panic>>
               ELSE /\ spc' = "crashed"
                    /\ panic' = "Start"
            /\ idx' = IF ChecksParseError THEN idx + 1 ELSE idx
            /\ UNCHANGED <<connVars, connectedCount, dials>>
       ELSE /\ idx' = idx + 1
            /\ UNCHANGED <<spc, panic>>
            /\ IF e.id \in reachable
               THEN /\ \E c \in DialTargets(e.id) :
                          IF c = 0
                          THEN UNCHANGED connVars
                          ELSE /\ live' = [live EXCEPT ![c] = TRUE]
                               /\ hpc' = [hpc EXCEPT ![c] = OnOpen]
                    /\ dials' = Append(dials, [entry |-> idx, id |-> e.id, ok |-> TRUE])
                    /\ connectedCount' = IF CountsDials THEN connectedCount + 1 ELSE connectedCount
               ELSE /\ dials' = Append(dials, [entry |-> idx, id |-> e.id, ok |-> FALSE])
                    /\ UNCHANGED <<connVars, connectedCount>>
    /\ UNCHANGED <<cfgVars, pairVars, taskVars, daemonVars, host, dht, notifiee, regVars, readVars, blist, dhtBootstraps, bootErr, startRet, closeVars>>

\* Whether bootstrapDHT, the loop done, calls n.dht.Bootstrap: the custom
\* and blocking revisions after at least one successful dial, the EnableDHT
\* revision whenever there is a DHT, the first revision never.
CallsDhtBootstrap ==
    CASE CountsDials -> connectedCount > 0
      [] rev = RevEnableDHT -> dht # "nil"
      [] OTHER -> FALSE

\* What bootstrapDHT returns, given whether n.dht.Bootstrap failed.
BootstrapResult(dhtFailed) ==
    CASE CountsDials /\ connectedCount = 0 -> "BootstrapFailure"
      [] CountsDials /\ dhtFailed -> "RoutingBootstrapError"
      [] OTHER -> "none"

\* What Start returns for bootstrapDHT's result: the custom revision logs a
\* warning and returns nil, the blocking revision returns the error.
StartResult(err) == IF rev = RevBlocking THEN err ELSE "nil"

\* The end of bootstrapDHT and what Start does with its result; the blocking
\* revision, its bootstrap done, registers its logging notifiee
\* (setupPeerDiscovery) and starts the discoverPeers goroutine.
bootstrapDHT_Finish ==
    /\ Alive
    /\ spc = "dial"
    /\ idx > Len(blist)
    /\ \E dhtFailed \in (IF CallsDhtBootstrap THEN BOOLEAN ELSE {FALSE}) :
          /\ dhtBootstraps' = IF CallsDhtBootstrap
                              THEN Append(dhtBootstraps, [attempted |-> idx - 1, of |-> Len(blist), failed |-> dhtFailed])
                              ELSE dhtBootstraps
          /\ bootErr' = BootstrapResult(dhtFailed)
          /\ IF rev = RevBlocking /\ bootErr' = "none"
             THEN /\ notifiee' = "logonly"
                  /\ tpc' = "select"
                  /\ spc' = "waiting"
                  /\ UNCHANGED startRet
             ELSE /\ spc' = "returned"
                  /\ startRet' = StartResult(bootErr')
                  /\ UNCHANGED <<notifiee, tpc>>
    /\ UNCHANGED <<cfgVars, pairVars, daemonVars, ctx, tickReady, ticks, reports, host, dht, regVars, connVars, readVars, blist, idx, connectedCount, dials, panic, closeVars>>

\* A context whose Done channel is always ready.
CtxDone_Always == TRUE

\* <-ctx.Done() is ready: the context has been cancelled.
CtxDone == ctx = "cancelled"

\* The caller cancels the context. The blocking revision is the one that
\* waits on it; a cancellation during its bootstrap shows as dials that
\* fail, and is seen by Start when it reaches the wait.
CtxCancel ==
    /\ Alive
    /\ rev = RevBlocking
    /\ spc = "waiting"
    /\ ctx = "live"
    /\ ctx' = "cancelled"
    /\ UNCHANGED <<cfgVars, pairVars, daemonVars, tpc, tickReady, ticks, reports, host, dht, notifiee, regVars, connVars, readVars, startVars, panic, closeVars>>

\* The blocking revision's Start returns when its context is cancelled:
\* <-ctx.Done(); return nil.
Start_CtxDone ==
    /\ Alive
    /\ spc = "waiting"
    /\ CtxDone
    /\ spc' = "returned"
    /\ startRet' = "nil"
    /\ UNCHANGED <<cfgVars, pairVars, taskVars, daemonVars, host, dht, notifiee, regVars, connVars, readVars, blist, idx, connectedCount, dials, dhtBootstraps, bootErr, panic, closeVars>>

(***************************************************************************)
(* P2PNetworking.discoverPeers (blocking revision): a goroutine that, on   *)
(* every tick of a 30-second ticker, logs the number of peers the          *)
(* transport is connected to, until the context is cancelled.              *)
(***************************************************************************)
\* n.host.Network().Peers(): the peers the transport has a connection to.
NetworkPeers == {RemotePeer(c) : c \in {d \in ConnIds : live[d]}}

\* The ticker delivers a tick to ticker.C, a channel of capacity one: a tick
\* that finds the channel full is dropped.
Ticker_Fire ==
    /\ Alive
    /\ tpc = "select"
    /\ ~tickReady
    /\ ticks < MaxTicks
    /\ tickReady' = TRUE
    /\ ticks' = ticks + 1
    /\ UNCHANGED <<cfgVars, pairVars, daemonVars, ctx, tpc, reports, host, dht, notifiee, regVars, connVars, readVars, startVars, panic, closeVars>>

\* case <-ticker.C: read the transport's peers and log their number.
discoverPeers_Report ==
    /\ Alive
    /\ tpc = "select"
    /\ tickReady
    /\ tickReady' = FALSE
    /\ reports' = Append(reports, Cardinality(NetworkPeers))
    /\ UNCHANGED <<cfgVars, pairVars, daemonVars, ctx, tpc, ticks, host, dht, notifiee, regVars, connVars, readVars, startVars, panic, closeVars>>

\* case <-ctx.Done(): return (and the deferred ticker.Stop()).
discoverPeers_Done ==
    /\ Alive
    /\ tpc = "select"
    /\ CtxDone
    /\ tpc' = "done"
    /\ UNCHANGED <<cfgVars, pairVars, daemonVars, ctx, tickReady, ticks, reports, host, dht, notifiee, regVars, connVars, readVars, startVars, panic, closeVars>>

(***************************************************************************)
(* P2PNetworking.Close. The library's closes are idempotent: closing a     *)
(* closed host or DHT does nothing and returns nil.                        *)
(***************************************************************************)
\* Close is called by the owner of the node, never while Start runs.
CanCallClose ==
    /\ Alive
    /\ cpc = "idle"
    /\ spc \in {"created", "returned"}
    /\ Len(closeRets) < MaxCloses

\* The errors a close of the resource can return.
CloseErrors(resource) == IF resource = "open" THEN BOOLEAN ELSE {FALSE}

Result(failed) == IF failed THEN "err" ELSE "ok"

\* A Close that returns an error when either close failed.
CloseReturn_Aggregate(res) == IF res.dht = "err" \/ res.host = "err" THEN "err" ELSE "nil"

\* What Close returns, given the results of the closes it made: the error of
\* host.Close; the error of dht.Close is logged (custom revision) or
\* discarded (EnableDHT revision).
CloseReturn(res) == IF res.host = "err" THEN "err" ELSE "nil"

\* host.Close() ends every live connection; each one's Disconnected
\* notification follows its Connected notification.
HostClosed ==
    /\ live' = [c \in ConnIds |-> FALSE]
    /\ hpc' = [c \in ConnIds |-> IF live[c] /\ hpc[c] = "established" THEN OnTeardown ELSE hpc[c]]

\* A Close that goes to the host without closing the DHT.
Close_DHT_Skipped ==
    /\ CanCallClose
    /\ rev \in RegistryRevs
    /\ closeTrace' = <<>>
    /\ closeRes' = [dht |-> "none", host |-> "none"]
    /\ cpc' = "host"
    /\ UNCHANGED <<cfgVars, pairVars, taskVars, daemonVars, host, dht, notifiee, regVars, connVars, readVars, startVars, panic, closeRets>>

\* The two later revisions: if n.dht != nil { n.dht.Close() }.
Close_DHT ==
    /\ CanCallClose
    /\ rev \in RegistryRevs
    /\ IF dht # "nil"
       THEN \E failed \in CloseErrors(dht) :
               /\ dht' = "closed"
               /\ closeTrace' = <<"dht">>
               /\ closeRes' = [dht |-> Result(failed), host |-> "none"]
       ELSE /\ dht' = dht
            /\ closeTrace' = <<>>
            /\ closeRes' = [dht |-> "none", host |-> "none"]
    /\ cpc' = "host"
    /\ UNCHANGED <<cfgVars, pairVars, taskVars, daemonVars, host, notifiee, regVars, connVars, readVars, startVars, panic, closeRets>>

\* The two later revisions: if n.host != nil { n.host.Close() }, and the return.
Close_Host ==
    /\ Alive
    /\ cpc = "host"
    /\ IF host # "nil"
       THEN \E failed \in CloseErrors(host) :
               /\ host' = "closed"
               /\ HostClosed
               /\ closeTrace' = Append(closeTrace, "host")
               /\ closeRes' = [closeRes EXCEPT !.host = Result(failed)]
       ELSE UNCHANGED <<host, connVars, closeTrace, closeRes>>
    /\ closeRets' = Append(closeRets, CloseReturn(closeRes'))
    /\ cpc' = "idle"
    /\ UNCHANGED <<cfgVars, pairVars, taskVars, daemonVars, dht, notifiee, regVars, readVars, startVars, panic>>

\* The two early revisions: n.host.Close() with no nil check.
Close_NoCheck ==
    /\ CanCallClose
    /\ rev \notin RegistryRevs
    /\ IF host = "nil"
       THEN /\ panic' = "Close"
            /\ UNCHANGED <<host, connVars, closeTrace, closeRes, closeRets>>
       ELSE \E failed \in CloseErrors(host) :
               /\ host' = "closed"
               /\ HostClosed
               /\ closeTrace' = <<"host">>
               /\ closeRes' = [dht |-> "none", host |-> Result(failed)]
               /\ closeRets' = Append(closeRets, CloseReturn(closeRes'))
               /\ panic' = panic
    /\ UNCHANGED <<cfgVars, pairVars, taskVars, daemonVars, dht, notifiee, regVars, readVars, startVars, cpc>>

\* The node's lifecycle, with the connections its bootstrap dials.
Next ==
    \/ \E c \in ConnIds : ConnClose(c)
    \/ \E c \in ConnIds : Connected_Lock(c)
    \/ \E c \in ConnIds : Connected_Store(c)
    \/ \E c \in ConnIds : Disconnected_Lock(c)
    \/ \E c \in ConnIds : Disconnected_Delete(c)
    \/ Start_Prepare
    \/ Start_Notify
    \/ bootstrapDHT_Begin
    \/ bootstrapDHT_Dial
    \/ bootstrapDHT_Finish
    \/ CtxCancel
    \/ Start_CtxDone
    \/ Ticker_Fire
    \/ discoverPeers_Report
    \/ discoverPeers_Done
    \/ Close_DHT
    \/ Close_Host
    \/ Close_NoCheck

Spec == Init /\ [][Next]_vars

(***************************************************************************)
(* The blocking revision alone, with the scheduling its liveness rests on: *)
(* the goroutine of discoverPeers and the one of Start are scheduled, and  *)
(* a select whose ctx.Done() case stays ready takes it (only one tick in   *)
(* thirty seconds competes with it).                                       *)
(***************************************************************************)
InitBlocking == Init /\ rev = RevBlocking

NextBlocking ==
    \/ \E c \in ConnIds : ConnClose(c)
    \/ Start_Prepare
    \/ bootstrapDHT_Begin
    \/ bootstrapDHT_Dial
    \/ bootstrapDHT_Finish
    \/ CtxCancel
    \/ Start_CtxDone
    \/ Ticker_Fire
    \/ discoverPeers_Report
    \/ discoverPeers_Done
    \/ Close_NoCheck

SpecBlocking ==
    /\ InitBlocking
    /\ [][NextBlocking]_vars
    /\ WF_vars(discoverPeers_Done)
    /\ WF_vars(Start_CtxDone)

(***************************************************************************)
(* Two nodes: this node (custom revision), given a bootstrap list that     *)
(* holds only node A's address, and node A, running; no connection is torn *)
(* down. The goroutines the transports run the notifications in are        *)
(* scheduled, and a mutex that stays free is acquired.                     *)
(***************************************************************************)
InitPair ==
    /\ Init
    /\ rev = RevCustom
    /\ bootstrapPeers \in SeqsUpTo({[ma |-> TRUE, id |-> NodeA]}, MaxList) \ {<<>>}

NextPair ==
    \/ Start_Prepare
    \/ Start_Notify
    \/ bootstrapDHT_Begin
    \/ bootstrapDHT_Dial
    \/ bootstrapDHT_Finish
    \/ \E c \in ConnIds : Connected_Lock(c)
    \/ \E c \in ConnIds : Connected_Store(c)
    \/ \E c \in ConnIds : NodeA_Connected_Lock(c)
    \/ \E c \in ConnIds : NodeA_Connected_Store(c)

SpecPair ==
    /\ InitPair
    /\ [][NextPair]_vars
    /\ \A c \in ConnIds :
          /\ WF_vars(Connected_Lock(c)) /\ WF_vars(Connected_Store(c))
          /\ WF_vars(NodeA_Connected_Lock(c)) /\ WF_vars(NodeA_Connected_Store(c))

(***************************************************************************)
(* The daemon: func main of cmd/daemon. daemon = "signals" is the current  *)
(* one (EnableDHT revision of the node, discovery disabled, empty list; it *)
(* waits for SIGINT or SIGTERM), daemon = "early" the earlier one (custom  *)
(* revision of the node, empty list; it returns when Start has returned).  *)
(* Both defer the node's Close. mpc is "Start" (main is in p2pNet.Start),  *)
(* "ready" (Start has returned nil, main prints the node's addresses),     *)
(* "wait" (signal.Notify is done, main waits on sigCh), "defer" (main is   *)
(* returning and runs its deferred calls), "exited".                       *)
(***************************************************************************)
InitDaemon ==
    /\ daemon \in {"signals", "early"}
    /\ rev = (IF daemon = "signals" THEN RevEnableDHT ELSE RevCustom)
    /\ enableDHT = (daemon = "early")
    /\ bootstrapPeers = <<>>
    /\ reachable \in SUBSET Peers
    /\ mpc = "Start"
    /\ exitHow = "none"
    /\ host = "nil"
    /\ dht = "nil"
    /\ peers = EmptyMap
    /\ peersMu = [w |-> 0, r |-> 0]
    /\ notifiee = "none"
    /\ live = [c \in ConnIds |-> FALSE]
    /\ hpc = [c \in ConnIds |-> "idle"]
    /\ rpc = "idle"
    /\ snapshot = <<>>
    /\ snapAt = 0
    /\ events = <<>>
    /\ raced = FALSE
    /\ spc = "created"
    /\ blist = <<>>
    /\ idx = 0
    /\ connectedCount = 0
    /\ dials = <<>>
    /\ dhtBootstraps = <<>>
    /\ bootErr = "none"
    /\ startRet = "none"
    /\ panic = "none"
    /\ cpc = "idle"
    /\ closeTrace = <<>>
    /\ closeRes = [dht |-> "none", host |-> "none"]
    /\ closeRets = <<>>
    /\ ctx = "live"
    /\ tpc = "none"
    /\ tickReady = FALSE
    /\ ticks = 0
    /\ reports = <<>>
    /\ peersA = EmptyMap
    /\ peersMuA = [w |-> 0, r |-> 0]
    /\ hpcA = [c \in ConnIds |-> "idle"]

\* The process has not exited: its goroutines run.
ProcessAlive == exitHow = "none"

\* if err := p2pNet.Start(ctx): the steps of Start, run by main.
Main_Start ==
    /\ ProcessAlive
    /\ mpc = "Start"
    /\ \/ Start_Prepare
       \/ Start_Notify
       \/ bootstrapDHT_Begin
       \/ bootstrapDHT_Dial
       \/ bootstrapDHT_Finish

\* What main does with the value Start returned: the current daemon calls
\* logger.Fatal on an error, which exits the process without running the
\* deferred calls, and goes on otherwise; the early daemon logs an error
\* and returns in both cases.
Main_StartReturned ==
    /\ ProcessAlive
    /\ mpc = "Start"
    /\ spc = "returned"
    /\ IF daemon = "signals"
       THEN IF startRet = "nil"
            THEN mpc' = "ready" /\ exitHow' = exitHow
            ELSE mpc' = "exited" /\ exitHow' = "fatal"
       ELSE mpc' = "defer" /\ exitHow' = exitHow
    /\ UNCHANGED <<cfgVars, pairVars, taskVars, daemon, host, dht, notifiee, regVars, connVars, readVars, startVars, panic, closeVars>>

\* signal.Notify(sigCh, os.Interrupt, syscall.SIGTERM); <-sigCh blocks.
Main_SignalNotify ==
    /\ ProcessAlive
    /\ mpc = "ready"
    /\ mpc' = "wait"
    /\ UNCHANGED <<cfgVars, pairVars, taskVars, daemon, exitHow, host, dht, notifiee, regVars, connVars, readVars, startVars, panic, closeVars>>

\* Whether the process has registered sigCh for SIGINT and SIGTERM.
SignalsNotified == daemon = "signals" /\ mpc \in {"wait", "defer"}

\* SIGINT or SIGTERM arrives while main waits on sigCh: main logs and returns.
Signal_Received ==
    /\ ProcessAlive
    /\ mpc = "wait"
    /\ mpc' = "defer"
    /\ UNCHANGED <<cfgVars, pairVars, taskVars, daemon, exitHow, host, dht, notifiee, regVars, connVars, readVars, startVars, panic, closeVars>>

\* SIGINT or SIGTERM arrives while no channel is registered for it: the Go
\* runtime's default action ends the process at once, no deferred call runs.
Signal_Default ==
    /\ ProcessAlive
    /\ ~SignalsNotified
    /\ mpc' = "exited"
    /\ exitHow' = "killed"
    /\ UNCHANGED <<cfgVars, pairVars, taskVars, daemon, host, dht, notifiee, regVars, connVars, readVars, startVars, panic, closeVars>>

\* defer p2pNet.Close() (defer server.Close()): the steps of Close, run as
\* main returns.
Main_Close ==
    /\ ProcessAlive
    /\ mpc = "defer"
    /\ \/ closeRets = <<>> /\ Close_DHT
       \/ Close_Host

\* The deferred calls done, main returns and the process exits.
Main_Exit ==
    /\ ProcessAlive
    /\ mpc = "defer"
    /\ cpc = "idle"
    /\ closeRets # <<>>
    /\ mpc' = "exited"
    /\ exitHow' = "returned"
    /\ UNCHANGED <<cfgVars, pairVars, taskVars, daemon, host, dht, notifiee, regVars, connVars, readVars, startVars, panic, closeVars>>

\* The transport's goroutines, while the process lives.
Main_Transport ==
    /\ ProcessAlive
    /\ \/ \E c \in ConnIds : ConnClose(c)
       \/ \E c \in ConnIds : Connected_Lock(c)
       \/ \E c \in ConnIds : Connected_Store(c)
       \/ \E c \in ConnIds : Disconnected_Lock(c)
       \/ \E c \in ConnIds : Disconnected_Delete(c)

NextDaemon ==
    \/ Main_Start
    \/ Main_StartReturned
    \/ Main_SignalNotify
    \/ Signal_Received
    \/ Signal_Default
    \/ Main_Close
    \/ Main_Exit
    \/ Main_Transport

SpecDaemon == InitDaemon /\ [][NextDaemon]_vars

(***************************************************************************)
(* Start with inbound connections: the host listens from the moment        *)
(* libp2p.New has built it, so remote peers can open connections to the    *)
(* node while Start is still running, before and after it registers its    *)
(* notifiee. The two revisions that bootstrap unconditionally.             *)
(***************************************************************************)
InitInbound == Init /\ rev \in {RevCustom, RevBlocking}

NextInbound ==
    \/ Start_Prepare
    \/ Start_Notify
    \/ bootstrapDHT_Begin
    \/ bootstrapDHT_Dial
    \/ bootstrapDHT_Finish
    \/ \E c \in ConnIds : ConnOpen(c)
    \/ \E c \in ConnIds : Connected_Lock(c)
    \/ \E c \in ConnIds : Connected_Store(c)

SpecInbound == InitInbound /\ [][NextInbound]_vars

(***************************************************************************)
(* The registry under load: a node of the custom revision that is running  *)
(* (Start has returned nil after a bootstrap in which no address parsed),  *)
(* with every connection handle open to the remote peers, and a caller of  *)
(* GetPeers.                                                               *)
(***************************************************************************)
InitRunning ==
    /\ rev = RevCustom
    /\ enableDHT = TRUE
    /\ bootstrapPeers = <<[ma |-> FALSE, id |-> 0]>>
    /\ reachable = {}
    /\ host = "open"
    /\ dht = "open"
    /\ peers = EmptyMap
    /\ peersMu = [w |-> 0, r |-> 0]
    /\ notifiee = "registry"
    /\ live = [c \in ConnIds |-> FALSE]
    /\ hpc = [c \in ConnIds |-> "idle"]
    /\ rpc = "idle"
    /\ snapshot = <<>>
    /\ snapAt = 0
    /\ events = <<>>
    /\ raced = FALSE
    /\ spc = "returned"
    /\ blist = <<>>
    /\ idx = 1
    /\ connectedCount = 0
    /\ dials = <<>>
    /\ dhtBootstraps = <<>>
    /\ bootErr = "BootstrapFailure"
    /\ startRet = "nil"
    /\ panic = "none"
    /\ cpc = "idle"
    /\ closeTrace = <<>>
    /\ closeRes = [dht |-> "none", host |-> "none"]
    /\ closeRets = <<>>
    /\ ctx = "live"
    /\ tpc = "none"
    /\ tickReady = FALSE
    /\ ticks = 0
    /\ reports = <<>>
    /\ peersA = EmptyMap
    /\ peersMuA = [w |-> 0, r |-> 0]
    /\ hpcA = [c \in ConnIds |-> "idle"]
    /\ daemon = "none"
    /\ mpc = "none"
    /\ exitHow = "none"

NextRegistry ==
    \/ \E c \in ConnIds : ConnOpen(c)
    \/ \E c \in ConnIds : ConnClose(c)
    \/ \E c \in ConnIds : Connected_Lock(c)
    \/ \E c \in ConnIds : Connected_Store(c)
    \/ \E c \in ConnIds : Disconnected_Lock(c)
    \/ \E c \in ConnIds : Disconnected_Delete(c)
    \/ GetPeers_RLock
    \/ GetPeers_Copy

SpecRegistry == InitRunning /\ [][NextRegistry]_vars

\* The registry under load, restricted to the first MaxHandlers connection
\* handles, with the scheduling its liveness rests on: every
\* goroutine that can take a step is scheduled (the steps inside a critical
\* section and GetPeers' copy), and sync.RWMutex is starvation-free for
\* writers: a Lock that is blocked holds back later RLock calls and is
\* handed the mutex in turn, so a handler whose Lock could succeed again and
\* again does acquire it.
HandlerConns == 1..MaxHandlers

NextHandlers ==
    \/ \E c \in HandlerConns : ConnOpen(c)
    \/ \E c \in HandlerConns : ConnClose(c)
    \/ \E c \in HandlerConns : Connected_Lock(c)
    \/ \E c \in HandlerConns : Connected_Store(c)
    \/ \E c \in HandlerConns : Disconnected_Lock(c)
    \/ \E c \in HandlerConns : Disconnected_Delete(c)
    \/ GetPeers_RLock
    \/ GetPeers_Copy

SpecHandlers ==
    /\ InitRunning
    /\ [][NextHandlers]_vars
    /\ WF_vars(GetPeers_Copy)
    /\ \A c \in HandlerConns :
          /\ SF_vars(Connected_Lock(c)) /\ WF_vars(Connected_Store(c))
          /\ SF_vars(Disconnected_Lock(c)) /\ WF_vars(Disconnected_Delete(c))

(***************************************************************************)
(* Properties of the peer registry, checked under SpecRegistry.            *)
(***************************************************************************)
\* No notification is waiting or running.
Quiescent == \A c \in ConnIds : hpc[c] \in {"idle", "established", "gone"}

\* The transport has a live connection to the peer.
Connectedness(p) == \E c \in ConnIds : live[c] /\ RemotePeer(c) = p

\* The index of the last event about the peer, 0 when there is none.
LastEvent(evs, p) ==
    LET about == {i \in 1..Len(evs) : RemotePeer(evs[i].conn) = p}
    IN IF about = {} THEN 0 ELSE CHOOSE i \in about : \A j \in about : j <= i

\* The reference registry: a peer is present iff the last event about it
\* is a connect, with the record of that connect.
Replay(evs) ==
    [p \in {q \in Peers : LastEvent(evs, q) > 0 /\ evs[LastEvent(evs, q)].op = "connect"} |->
        [ID |-> p, Addrs |-> <<RemoteMultiaddr(evs[LastEvent(evs, p)].conn)>>]]

\* C1: a peer is a key of the registry if and only if the transport has a
\* live connection to it. Stated at the states in which no notification is
\* in flight, the states in which the registry has caught up with the
\* transport.
C1_RegistryIffLive ==
    Quiescent => \A p \in Peers : (p \in DOMAIN peers) <=> Connectedness(p)

\* C2: the sequence GetPeers returns holds exactly the records of the
\* registry replayed from the events applied before it: no record for a
\* peer whose last event is a disconnect, exactly one record for a peer
\* whose last event is a connect, equal to the record of that connect.
C2_SnapshotIsReplay ==
    LET m == Replay(SubSeq(events, 1, snapAt)) IN
    /\ Len(snapshot) = Cardinality(DOMAIN m)
    /\ \A i \in 1..Len(snapshot) : snapshot[i].ID \in DOMAIN m /\ snapshot[i] = m[snapshot[i].ID]
    /\ \A p \in DOMAIN m : \E i \in 1..Len(snapshot) : snapshot[i] = m[p]

\* C2's case: a snapshot taken after two connects of the same peer, which
\* holds the record of the second.
C2_Witness ==
    /\ snapAt >= 2
    /\ events[snapAt - 1].op = "connect"
    /\ events[snapAt].op = "connect"
    /\ events[snapAt - 1].conn # events[snapAt].conn
    /\ RemotePeer(events[snapAt - 1].conn) = RemotePeer(events[snapAt].conn)
    /\ \E i \in 1..Len(snapshot) : snapshot[i] = AddrInfo(events[snapAt].conn)

\* The notifications of the connection that have passed their critical section.
Applied(c) ==
    CASE hpc[c] \in {"idle", "C0", "C1"} -> <<>>
      [] hpc[c] \in {"established", "D0", "D1"} -> <<"connect">>
      [] OTHER -> <<"connect", "disconnect">>

\* The events about the connection, in the order they were applied.
EventsOf(c) ==
    LET mine == SelectSeq(events, LAMBDA e : e.conn = c)
    IN [i \in 1..Len(mine) |-> mine[i].op]

\* The only connection ever opened to its peer.
OnlyConnOfPeer(c) == \A d \in ConnIds \ {c} : RemotePeer(d) = RemotePeer(c) => hpc[d] = "idle"

\* C3: the handlers' critical sections exclude each other, the registry is
\* the result of the serial execution events (every notification that has
\* run appears in it exactly once, in its connection's order), and once the
\* handlers are done a peer with a single connection is in the registry iff
\* that connection has been connected and not disconnected.
C3_Serializable ==
    /\ ~raced
    /\ peersMu.w <= 1
    /\ peersMu.w = 1 => peersMu.r = 0
    /\ \A c \in ConnIds : EventsOf(c) = Applied(c)
    /\ peers = Replay(events)
    /\ Quiescent =>
          \A c \in ConnIds : OnlyConnOfPeer(c) =>
              /\ hpc[c] = "established" => (RemotePeer(c) \in DOMAIN peers /\ peers[RemotePeer(c)] = AddrInfo(c))
              /\ hpc[c] \in {"idle", "gone"} => RemotePeer(c) \notin DOMAIN peers

\* C3's case: the handlers of two connections to distinct peers have run
\* interleaved (connect 2, connect 1, disconnect 2) and are done.
C3_Witness ==
    /\ Quiescent
    /\ events = <<[op |-> "connect", conn |-> 2], [op |-> "connect", conn |-> 1], [op |-> "disconnect", conn |-> 2]>>
    /\ DOMAIN peers = {1}
    /\ hpc[3] = "idle"

\* The transport has opened a connection to the peer.
HadConnection(p) == \E c \in ConnIds : RemotePeer(c) = p /\ hpc[c] # "idle"

\* The Disconnected handler of every connection opened to the peer has run.
AllDisconnectsHandled(p) ==
    /\ HadConnection(p)
    /\ \A c \in ConnIds : RemotePeer(c) = p => hpc[c] \in {"idle", "gone"}

\* The step in which GetPeers copies the map, unlocks and returns.
GetPeersReturns == rpc = "R1" /\ rpc' = "idle"

\* The sequence holds no record of the peer.
NoRecordOf(seq, p) == \A i \in 1..Len(seq) : seq[i].ID # p

\* C14 as claimed: the sequence GetPeers returns holds no record of a peer
\* whose connections the transport has all torn down before the call returns.
C14_NoStaleAfterTeardown ==
    [][GetPeersReturns =>
          \A p \in Peers : (HadConnection(p) /\ ~Connectedness(p)) => NoRecordOf(snapshot', p)]_vars

\* C14 as amended: the sequence GetPeers returns holds no record of a peer
\* for which the Disconnected handler of every connection has run before
\* the call returns.
C14_NoStaleAfterDisconnected ==
    [][GetPeersReturns =>
          \A p \in Peers : AllDisconnectsHandled(p) => NoRecordOf(snapshot', p)]_vars

\* C14's case: GetPeers has returned, with no registry event since, after
\* two connections to peer 1 were opened and their Disconnected handlers
\* ran; it returned no record of the peer.
C14_Witness ==
    /\ rpc = "idle"
    /\ snapAt = Len(events)
    /\ snapAt = 4
    /\ hpc[1] = "gone"
    /\ hpc[3] = "gone"
    /\ NoRecordOf(snapshot, 1)

\* The step is the critical section of the handler op of connection c.
HandlerApplies(op, c) ==
    /\ Len(events') = Len(events) + 1
    /\ events'[Len(events')] = [op |-> op, conn |-> c]

\* The step leaves the records of the peers other than p as they are.
OthersUntouched(p) ==
    \A q \in Peers \ {p} :
        /\ q \in DOMAIN peers' <=> q \in DOMAIN peers
        /\ q \in DOMAIN peers => peers'[q] = peers[q]

\* C19: a Connected handler leaves the registry with the one record of its
\* peer being that of its connection (the peer's ID, the connection's remote
\* address as only address), whatever record the peer had; a Disconnected
\* handler leaves the registry without a record of its peer, whatever other
\* connections to the peer are open; neither touches another peer's record.
C19_UnconditionalUpsertRemove ==
    [][\A c \in ConnIds :
          /\ HandlerApplies("connect", c) =>
                /\ RemotePeer(c) \in DOMAIN peers'
                /\ peers'[RemotePeer(c)] = [ID |-> RemotePeer(c), Addrs |-> <<RemoteMultiaddr(c)>>]
                /\ OthersUntouched(RemotePeer(c))
          /\ HandlerApplies("disconnect", c) =>
                /\ RemotePeer(c) \notin DOMAIN peers'
                /\ OthersUntouched(RemotePeer(c))]_vars

\* C19's case: connection 3 to peer 1 has overwritten the record connection
\* 1 stored, then the Disconnected of connection 1 has removed the peer
\* while connection 3 is still open.
C19_Witness ==
    /\ events = <<[op |-> "connect", conn |-> 1], [op |-> "connect", conn |-> 3], [op |-> "disconnect", conn |-> 1]>>
    /\ live[3]
    /\ hpc[3] = "established"
    /\ 1 \notin DOMAIN peers

\* The handlers that are inside their critical section.
InCriticalSection == {c \in ConnIds : hpc[c] \in {"C1", "D1"}}

BootstrapOver == idx > 0 /\ spc \in {"returned", "waiting"}

\* The operator's list has an entry that does not parse.
HasMalformed == \E i \in 1..Len(bootstrapPeers) : AddrInfoFromP2pAddrFails(bootstrapPeers[i])

\* The operator's list has a well-formed entry whose peer a dial reaches.
HasDialable ==
    \E i \in 1..Len(bootstrapPeers) :
        ~AddrInfoFromP2pAddrFails(bootstrapPeers[i]) /\ bootstrapPeers[i].id \in reachable

\* No dial of the bootstrap has succeeded.
NoDialSucceeded == \A i \in 1..Len(dials) : ~dials[i].ok

\* Every well-formed entry of the operator's list has been dialed once, in
\* the order of the list.
EveryWellFormedDialed ==
    LET wf == SelectSeq(bootstrapPeers, LAMBDA e : ~AddrInfoFromP2pAddrFails(e))
    IN /\ Len(dials) = Len(wf)
       /\ \A i \in 1..Len(wf) : dials[i].id = wf[i].id

\* C4: when every entry of a non-empty bootstrap list has failed to dial,
\* bootstrapDHT has attempted all of them, returns BootstrapFailure and has
\* not called the routing table's bootstrap.
C4_AllFailIsBootstrapFailure ==
    (rev \in RegistryRevs /\ BootstrapOver /\ Len(bootstrapPeers) > 0 /\ NoDialSucceeded) =>
        /\ idx = Len(blist) + 1
        /\ bootErr = "BootstrapFailure"
        /\ dhtBootstraps = <<>>

\* C5: with a list that holds malformed entries and at least one valid,
\* dialable entry, the bootstrap does not crash, skips the malformed
\* entries, dials every well-formed one and does not report
\* BootstrapFailure.
C5_MalformedSkipped ==
    (rev \in RegistryRevs /\ RunsBootstrap /\ HasMalformed /\ HasDialable) =>
        /\ panic = "none"
        /\ BootstrapOver => (EveryWellFormedDialed /\ bootErr # "BootstrapFailure")

\* C6: when a dial succeeded and the routing table's bootstrap failed,
\* Start returns nil and leaves the node running with its host open.
C6_RoutingErrorNotFatal ==
    (spc = "returned" /\ dhtBootstraps # <<>> /\ dhtBootstraps[Len(dhtBootstraps)].failed /\ ~NoDialSucceeded) =>
        /\ startRet = "nil"
        /\ (closeRets = <<>> /\ cpc = "idle") => host = "open"

\* C7: the routing table's bootstrap is called at most once, after every
\* entry of the list has been attempted, and only if a dial succeeded.
C7_DhtBootstrapAfterSuccess ==
    /\ Len(dhtBootstraps) <= 1
    /\ \A i \in 1..Len(dhtBootstraps) :
          /\ dhtBootstraps[i].attempted = dhtBootstraps[i].of
          /\ ~NoDialSucceeded

\* C8: in the revisions whose Close handles the routing table, a Close
\* closes the routing table (when there is one) before the host and nothing
\* after the host, it goes on to the host whatever the routing table's
\* close returned, and the host is never closed while the routing table is
\* still open.
C8_DhtClosedBeforeHost ==
    rev \in RegistryRevs =>
        /\ closeTrace \in {<<>>, <<"dht">>, <<"host">>, <<"dht", "host">>}
        /\ (closeTrace = <<"host">>) => dht = "nil"
        /\ (cpc = "idle" /\ closeRets # <<>> /\ host # "nil") => closeRes.host # "none"
        /\ host = "closed" => dht # "open"

\* C8's case: a Close whose routing table close failed has gone on to close
\* the host.
C8_Witness ==
    /\ rev \in RegistryRevs
    /\ closeTrace = <<"dht", "host">>
    /\ closeRes.dht = "err"
    /\ closeRes.host = "ok"

\* C9: Close never crashes, whatever the state of the node, and a Close
\* after a Close that returned nil returns nil.
C9_CloseSafe ==
    /\ panic # "Close"
    /\ (Len(closeRets) >= 2 /\ closeRets[1] = "nil") => closeRets[2] = "nil"

\* C10 as claimed: Close returns nil only when both closes succeeded, and an
\* error whenever the close of the routing table or of the host failed.
C10_AggregateError ==
    (cpc = "idle" /\ closeRets # <<>>) =>
        (closeRets[Len(closeRets)] = "nil" <=> (closeRes.dht # "err" /\ closeRes.host # "err"))

\* C10 as amended: Close returns an error exactly when the close of the host
\* failed; a failure to close the routing table is logged and not returned.
C10_HostErrorOnly ==
    (cpc = "idle" /\ closeRets # <<>>) =>
        (closeRets[Len(closeRets)] = "err" <=> closeRes.host = "err")

\* C10's case: the routing table's close failed, the host's succeeded, and
\* Close returned nil.
C10_Witness ==
    /\ cpc = "idle"
    /\ closeRes = [dht |-> "err", host |-> "ok"]
    /\ closeRets = <<"nil">>

\* A step of Start before the host exists has failed: Start has left its
\* first step and the node has no host.
PrepareHasFailed == spc # "created" /\ host = "nil"

\* C11: when identity generation, the construction of the connection
\* manager, the listen address or the construction of the host fails, Start
\* returns that error and nothing later runs: no crash, no host stored, no
\* notifiee registered, no bootstrap begun, no dial made.
C11_PrepareFailureFatal ==
    PrepareHasFailed =>
        /\ panic = "none"
        /\ spc = "returned"
        /\ startRet \in PrepareFailures(rev)
        /\ notifiee = "none"
        /\ idx = 0
        /\ dials = <<>>

\* C12: a node of the EnableDHT revision started with discovery disabled
\* never runs the bootstrap, whatever its list: it makes no dial, builds no
\* routing table and bootstraps none, its registry stays empty (no inbound
\* connection arrives), and once its host is built Start returns nil.
C12_DisabledDiscoveryRuns ==
    (rev = RevEnableDHT /\ ~enableDHT) =>
        /\ panic = "none"
        /\ idx = 0
        /\ dials = <<>>
        /\ dht = "nil"
        /\ dhtBootstraps = <<>>
        /\ peers = EmptyMap
        /\ (spc = "returned" /\ host # "nil") => startRet = "nil"

\* C12's case: the daemon's configuration (discovery disabled, empty list)
\* has started and is running with its host open.
C12_Witness ==
    /\ rev = RevEnableDHT
    /\ ~enableDHT
    /\ bootstrapPeers = <<>>
    /\ spc = "returned"
    /\ startRet = "nil"
    /\ host = "open"
    /\ notifiee = "registry"

\* A call of Close has begun.
CloseBegun == cpc # "idle" \/ closeRets # <<>>

\* C15: once Close has begun, no step changes the peer registry.
C15_NoMutationAfterClose == [][CloseBegun => peers' = peers]_vars

\* The dials of the bootstrap that returned without error.
SuccessfulDials == {i \in 1..Len(dials) : dials[i].ok}

\* C18: the bootstrap of the custom revision dials the parsed addresses one
\* at a time in list order: every dial is of an entry the loop has passed,
\* to that entry's peer; the dialed entries strictly increase (no entry is
\* dialed twice, a failed dial is not retried); connectedCount is the number
\* of dials that returned without error; and when the loop is over every
\* well-formed entry of the operator's list has been dialed once, in order.
C18_SequentialDialing ==
    rev = RevCustom =>
        /\ \A i \in 1..Len(dials) :
              /\ dials[i].entry \in 1..Len(blist)
              /\ dials[i].entry < idx
              /\ dials[i].id = blist[dials[i].entry].id
        /\ \A i, j \in 1..Len(dials) : i < j => dials[i].entry < dials[j].entry
        /\ connectedCount = Cardinality(SuccessfulDials)
        /\ (BootstrapOver /\ Len(bootstrapPeers) > 0) => EveryWellFormedDialed
        /\ BootstrapOver => (bootErr = "BootstrapFailure" <=> SuccessfulDials = {})

\* C18's case: the first entry's dial failed, the loop went on to the second
\* entry, whose dial succeeded, and the bootstrap is over with a count of 1.
C18_Witness ==
    /\ rev = RevCustom
    /\ BootstrapOver
    /\ Len(dials) = 2
    /\ ~dials[1].ok /\ dials[1].entry = 1
    /\ dials[2].ok /\ dials[2].entry = 2
    /\ connectedCount = 1

\* Every entry of the operator's list is malformed.
AllMalformed == \A i \in 1..Len(bootstrapPeers) : AddrInfoFromP2pAddrFails(bootstrapPeers[i])

\* The sequence is the operator's list without the strings that are no
\* multiaddr: it holds no entry of another origin.
FromOperatorList(l) ==
    l = SelectSeq(bootstrapPeers, LAMBDA e : ~NewMultiaddrFails(e))

\* C22: in the custom revision the bootstrap ranges over the default set
\* when the operator's list is empty, and over entries of the operator's
\* list alone when it is not; with a non-empty list in which every entry is
\* malformed it makes no dial, not even of a default peer, does not call the
\* routing table's bootstrap and returns BootstrapFailure.
C22_DefaultsOnlyWhenEmpty ==
    (rev = RevCustom /\ idx > 0) =>
        /\ Len(bootstrapPeers) = 0 => blist = DefaultBootstrapPeers
        /\ Len(bootstrapPeers) > 0 => FromOperatorList(blist)
        /\ \A i \in 1..Len(dials) :
              IF Len(bootstrapPeers) = 0
              THEN dials[i].id = DefaultBootstrapPeers[dials[i].entry].id
              ELSE \E k \in 1..Len(bootstrapPeers) :
                      ~AddrInfoFromP2pAddrFails(bootstrapPeers[k]) /\ bootstrapPeers[k].id = dials[i].id
        /\ (Len(bootstrapPeers) > 0 /\ AllMalformed) =>
              /\ dials = <<>>
              /\ dhtBootstraps = <<>>
              /\ BootstrapOver => bootErr = "BootstrapFailure"

\* C22's case: a list of two malformed entries (one that is no multiaddr,
\* one without a /p2p component), every default peer reachable: the
\* bootstrap is over without a dial and has returned BootstrapFailure.
C22_Witness ==
    /\ rev = RevCustom
    /\ bootstrapPeers = <<[ma |-> FALSE, id |-> 0], [ma |-> TRUE, id |-> 0]>>
    /\ reachable = Peers
    /\ BootstrapOver
    /\ dials = <<>>
    /\ bootErr = "BootstrapFailure"

(***************************************************************************)
(* Properties of two nodes, checked under SpecPair.                        *)
(***************************************************************************)
\* Start has completed and a dial of its bootstrap to node A succeeded.
StartedWithDialToA ==
    /\ spc = "returned"
    /\ \E i \in 1..Len(dials) : dials[i].id = NodeA /\ dials[i].ok

\* Each node's registry holds the other node.
EachHasTheOther == NodeA \in DOMAIN peers /\ NodeB \in DOMAIN peersA

\* C13: once this node's Start has completed with a successful dial to node
\* A, no connection being torn down, eventually and from then on each
\* node's registry holds the other's peer ID.
C13_EachInOthersRegistry == StartedWithDialToA ~> []EachHasTheOther

\* C13's case: Start has completed after a successful dial to node A and
\* each registry holds the other node, with the address of its end of the
\* connection.
C13_Witness ==
    /\ StartedWithDialToA
    /\ EachHasTheOther
    /\ peers[NodeA] = AddrInfo(1)
    /\ peersA[NodeB] = AddrInfoA(1)

(***************************************************************************)
(* Properties of the daemon, checked under SpecDaemon.                     *)
(***************************************************************************)
\* C16: when the process exits after the node has started (Start has
\* returned nil, a host was built), Close has been called on the node:
\* a SIGINT or SIGTERM received after the start leads to Close before exit.
C16_CloseBeforeExit ==
    (exitHow # "none" /\ spc = "returned" /\ startRet = "nil") => CloseBegun

(***************************************************************************)
(* Properties of the blocking revision, checked under SpecBlocking.        *)
(***************************************************************************)
\* The fields of the node and the state of its transport.
nodeState == <<host, dht, peers, peersMu, notifiee, live, hpc>>

\* C17 as claimed, its last part: Start of the blocking revision returns
\* only after the context is cancelled.
C17_StartReturnsOnlyAfterCancel == (rev = RevBlocking /\ spc = "returned") => ctx = "cancelled"

\* C17 as amended: discoverPeers returns only once the context is
\* cancelled, and then eventually does; it logs a report only for a tick of
\* its ticker, and a report changes nothing of the node; Start returns nil
\* only after the context is cancelled (it returns an error before that
\* when the bootstrap fails).
C17_ReportingStopsOnCancel ==
    /\ [](tpc = "done" => ctx = "cancelled")
    /\ [](Len(reports) + (IF tickReady THEN 1 ELSE 0) = ticks)
    /\ [][reports' # reports => UNCHANGED nodeState]_vars
    /\ (ctx = "cancelled") ~> (tpc = "done")
    /\ []((spc = "returned" /\ startRet = "nil") => ctx = "cancelled")
    /\ []((spc = "returned" /\ ctx = "live") => (startRet = bootErr /\ bootErr # "none" /\ tpc = "none"))

\* C17's case: discoverPeers has logged a report about a connected peer and
\* has returned after the cancellation, and Start has returned nil.
C17_Witness ==
    /\ tpc = "done"
    /\ ctx = "cancelled"
    /\ Len(reports) >= 1
    /\ reports[1] >= 1
    /\ spc = "returned"
    /\ startRet = "nil"

(***************************************************************************)
(* Properties of Start with inbound connections, checked under SpecInbound.*)
(***************************************************************************)
\* A Connected handler has stored the record of the connection.
Upserted(c) == \E i \in 1..Len(events) : events[i] = [op |-> "connect", conn |-> c]

\* C21: no Connected notification is missed: every connection opened while
\* the host exists, dialed by the bootstrap or accepted inbound, has its
\* Connected handler called (waiting or running) or has produced a registry
\* upsert.
C21_NoConnectedMissed ==
    \A c \in ConnIds : hpc[c] # "idle" => (hpc[c] \in {"C0", "C1"} \/ Upserted(c))

====
